---- MODULE Spec2Model ----
(***************************************************************************)
(* A model of the black-box test harness of src/TestRunner/TestRunner.py:  *)
(* main() constructs a TestRunner, loads the suite, runs every test case   *)
(* through one child process each, folds the outcome into self.results,    *)
(* prints the summary and exits.                                           *)
(*                                                                         *)
(* Python strings are sequences of one-character strings.  A JSON value    *)
(* found under a key of a test case is a record [t, v]: t = "str" with the *)
(* characters v, t = "null" for null, t = "num" for any other value that   *)
(* is no string, t = "absent" when the key is missing.                     *)
(***************************************************************************)
EXTENDS Integers, Sequences, FiniteSets

\* ------------------------------------------------------------------ bounds
\* Longest suite the model enumerates.
MaxCases == 2
\* Longest string the comparison is enumerated over (specification SpecCmp).
MaxStrLen == 3
\* Longest stderr content of the paired executions (specification SpecErr).
MaxErrLen == 2
\* Longest suite of the runs of well-formed suites (specification SpecSuite).
MaxSuite == 3
\* Largest max_num of the downloader (specification SpecDl); above the miss
\* limit, so that series are cut short.
MaxNum == 30

\* ------------------------------------------------------------- program data
\* argparse default of --timeout (line 139); the constructor's default is the same.
DefaultTimeout == 5
\* The timeouts the operator may configure in the model.
Timeouts == {1, DefaultTimeout}

Chars == {"a", "b", " ", "\n"}
\* A byte in the child's output that is no text in the runner's encoding
\* (text=True decodes strictly), and a character of a JSON string that
\* str.encode refuses (a lone surrogate, "\ud800" in the suite file).
Undecodable == "0xFF"
Surrogate == "U+D800"
Decodable(s) == \A k \in 1..Len(s) : s[k] # Undecodable
Encodable(s) == \A k \in 1..Len(s) : s[k] # Surrogate
\* str.isspace() on the characters of the model.
IsSpace(c) == c \in {" ", "\n"}

StrV(s) == [t |-> "str", v |-> s]
\* A JSON value that is neither a string nor null and is true in Python (a
\* non-zero number, true, a non-empty list or object), one that is false in
\* Python (0, false, [], {}), and JSON null (Python None).
NumV == [t |-> "num", v |-> <<>>]
FalsyV == [t |-> "falsy", v |-> <<>>]
NullV == [t |-> "null", v |-> <<>>]
Absent == [t |-> "absent", v |-> <<>>]

\* dict.get(key, default): the value under the key, or the default.
Get(field, default) == IF field.t = "absent" THEN StrV(default) ELSE field

\* Python None / a string, for the 'actual' slot of a result.
None == [some |-> FALSE, v |-> <<>>]
Some(s) == [some |-> TRUE, v |-> s]
\* The stdin of a child with w written to it and not closed (Some(w) in that
\* slot is w written and the stdin closed).
Unclosed(w) == [some |-> FALSE, v |-> w]
Prefixes(s) == { SubSeq(s, 1, k) : k \in 0..Len(s) }

\* The error slot of a result: None, "Output mismatch", f"Timeout ({limit}s)",
\* or f"Error: {cause}".
NoError == [kind |-> "None", limit |-> 0, cause |-> ""]
MismatchError == [kind |-> "Output mismatch", limit |-> 0, cause |-> ""]
TimeoutError(limit) == [kind |-> "Timeout", limit |-> limit, cause |-> ""]
ExecError(cause) == [kind |-> "Error", limit |-> 0, cause |-> cause]

\* str.lstrip(), str.rstrip() and str.strip() with no argument.
RECURSIVE LStrip(_)
LStrip(s) ==
  IF s = <<>> THEN s
  ELSE IF IsSpace(Head(s)) THEN LStrip(Tail(s)) ELSE s

RECURSIVE RStrip(_)
RStrip(s) ==
  IF s = <<>> THEN s
  ELSE IF IsSpace(s[Len(s)]) THEN RStrip(SubSeq(s, 1, Len(s) - 1)) ELSE s

\* rstrip() in the place of strip().
StripTrailingOnly(s) == RStrip(s)

Strip(s) == RStrip(LStrip(s))

\* Lines 54-59 of run_single_test: the verdict on the child's stdout against
\* the already stripped expected output.
Evaluate(stdout, expected_output) ==
  LET actual_output == Strip(stdout)
  IN IF actual_output = expected_output
     THEN [passed |-> TRUE, actual |-> Some(actual_output), error |-> NoError]
     ELSE [passed |-> FALSE, actual |-> Some(actual_output), error |-> MismatchError]

\* str(i) for the positional label f'Test {i}' of line 73.
Digit(d) == <<"0", "1", "2", "3", "4", "5", "6", "7", "8", "9">>[d + 1]
RECURSIVE Decimal(_)
Decimal(n) == IF n < 10 THEN <<Digit(n)>> ELSE Decimal(n \div 10) \o <<Digit(n % 10)>>
\* The label counted from 0.
TestLabelFromZero(idx) == <<"T", "e", "s", "t", " ">> \o Decimal(idx - 1)
TestLabel(idx) == <<"T", "e", "s", "t", " ">> \o Decimal(idx)

\* ------------------------------------------------------------- the inputs
\* Test cases of the suite file.  obj = FALSE is a list element that is no
\* JSON object (a string, a number): it has no .get.
Case(name, input, expected) ==
  [obj |-> TRUE, name |-> name, input |-> input, expected |-> expected]
NonObject == [obj |-> FALSE, name |-> Absent, input |-> Absent, expected |-> Absent]

CaseValues ==
  { Case(StrV(<<"A">>), StrV(<<"x">>), StrV(<<"a", "\n">>)),
    Case(Absent, Absent, Absent),
    Case(StrV(<<"A">>), StrV(<<"x">>), NumV),
    Case(StrV(<<"A">>), NumV, StrV(<<"a">>)),
    Case(StrV(<<"A">>), NullV, StrV(<<"a">>)),
    Case(StrV(<<"A">>), FalsyV, StrV(<<"a">>)),
    Case(StrV(<<"A">>), StrV(<<Surrogate>>), StrV(<<"a">>)),
    Case(StrV(<<Surrogate>>), Absent, Absent),
    NonObject }

\* What the subject binary may write to its stdout.
Outputs == { <<" ", "a">>, <<"\n">>, <<Undecodable>> }

SeqsUpTo(S, n) == UNION { [1..k -> S] : k \in 0..n }

\* The suite file: shape "invalid" cannot be parsed as JSON, "nokey" has no
\* 'test_cases' key (or is no object at top level), "scalar" has a number or
\* null under 'test_cases', "object" has a JSON object or a string there
\* (len() takes it; iterating it yields keys or characters, which are
\* strings), "list" has a list.
Doc(shape, cases) == [shape |-> shape, cases |-> cases]
Docs ==
  { Doc("invalid", <<>>), Doc("nokey", <<>>), Doc("scalar", <<>>),
    Doc("object", <<>>), Doc("object", <<NonObject>>) }
  \cup { Doc("list", cs) : cs \in SeqsUpTo(CaseValues, MaxCases) }

VARIABLES
  binaryExists,   \* self.binary_path.exists() at construction
  testsExists,    \* self.tests_file.exists() at construction
  doc,            \* the contents of the suite file
  timeout,        \* self.timeout
  pc,             \* where main() is
  tests,          \* tests['test_cases'] of run_all_tests
  i,              \* the loop index of run_all_tests (1-based)
  results,        \* self.results
  ret,            \* (passed, actual, error) of the running run_single_test
  procs,          \* every child process created, in creation order
  outcomes,       \* the results run_single_test returned, one per folded case
  aborted,        \* which phase raised the exception main() caught
  exitCode,       \* the argument of sys.exit, -1 while running
  summaryPrinted, \* print_summary has run
  ev,             \* the evaluation of specifications SpecCmp and SpecErr
  verbose,        \* runner.verbose (line 146)
  out,            \* what has been printed, in order
  dl              \* download_series of src/main.py (specification SpecDl)

vars == <<binaryExists, testsExists, doc, timeout, pc, tests, i, results, ret,
          procs, outcomes, aborted, exitCode, summaryPrinted, ev, verbose, out, dl>>

\* What no step of the test runner writes.
env == <<binaryExists, testsExists, doc, timeout, verbose, dl>>

NoRet == [passed |-> FALSE, actual |-> None, error |-> NoError]
NoEv == [stdout |-> <<>>, expected |-> <<>>, done |-> FALSE, result |-> NoRet]

\* download_series not running.
DlIdle ==
  [pc |-> "idle", max_num |-> 0, num |-> 0, misses |-> 0, found_any |-> FALSE,
   pageGets |-> 0, imageGets |-> 0, sinceValid |-> 0, last |-> "none"]

\* The command lines of the model: the defaults, and -v with -t 1.
Configs ==
  { [timeout |-> DefaultTimeout, verbose |-> FALSE],
    [timeout |-> 1, verbose |-> TRUE] }

\* One printed item.  kind "banner" is line 70 (idx = the number of tests),
\* "prefix" the '[i/n] name: ' of line 74, "verdict" the PASSED/FAILED of
\* lines 84/87 that ends that line, "detail" print_failure_details,
\* "summary" the block of print_summary (counts = total, passed, failed; info
\* = the failures listed), "summaryHead" that block cut short before its
\* first failure, "error" the line of main()'s handler.
Printed(kind, idx, of, name, passed, info, counts) ==
  [kind |-> kind, idx |-> idx, of |-> of, name |-> name, passed |-> passed,
   info |-> info, counts |-> counts]
Banner(n) == Printed("banner", n, n, StrV(<<>>), FALSE, <<>>, <<>>)
Prefix(idx, n, name) == Printed("prefix", idx, n, name, FALSE, <<>>, <<>>)
Verdict(idx, passed) == Printed("verdict", idx, 0, StrV(<<>>), passed, <<>>, <<>>)
Detail(idx, info) == Printed("detail", idx, 0, info.test, FALSE, <<info>>, <<>>)
SummaryBlock(res) ==
  Printed("summary", 0, 0, StrV(<<>>), FALSE,
          IF res.failed > 0 THEN res.failures ELSE <<>>,
          <<res.total, res.passed, res.failed>>)
ErrorLine == Printed("error", 0, 0, StrV(<<>>), FALSE, <<>>, <<>>)

\* self.results of __init__ (lines 19-24).
InitResults == [passed |-> 0, failed |-> 0, total |-> 0, failures |-> <<>>]

Init ==
  /\ binaryExists \in BOOLEAN
  /\ testsExists \in BOOLEAN
  /\ doc \in Docs
  /\ (~testsExists => doc = Doc("invalid", <<>>))
  /\ \E c \in Configs : timeout = c.timeout /\ verbose = c.verbose
  /\ timeout \in Timeouts
  /\ out = <<>>
  /\ dl = DlIdle
  /\ pc = "init"
  /\ tests = <<>>
  /\ i = 0
  /\ results = InitResults
  /\ ret = NoRet
  /\ procs = <<>>
  /\ outcomes = <<>>
  /\ aborted = "no"
  /\ exitCode = -1
  /\ summaryPrinted = FALSE
  /\ ev = NoEv

\* The handler exiting with the status the counts so far would give.
AbortWithCounts(phase) ==
  /\ pc' = "exited"
  /\ aborted' = phase
  /\ exitCode' = IF results.failed = 0 THEN 0 ELSE 1
  /\ out' = Append(out, ErrorLine)

\* main()'s handler (lines 150-152): print the error, sys.exit(1).
Abort(phase) ==
  /\ pc' = "exited"
  /\ aborted' = phase
  /\ exitCode' = 1
  /\ out' = Append(out, ErrorLine)

\* TestRunner(...) of line 145: __init__ (lines 15-29).
Construct ==
  /\ pc = "init"
  /\ IF binaryExists /\ testsExists
     THEN /\ pc' = "load"
          /\ UNCHANGED <<aborted, exitCode, out>>
     ELSE Abort("startup")
  /\ UNCHANGED <<env, tests, i, results, ret, procs, outcomes, summaryPrinted, ev>>

\* load_tests and the banner of run_all_tests (lines 68-70): json.load, then
\* len(tests['test_cases']).
LoadTests ==
  /\ pc = "load"
  /\ IF doc.shape \in {"object", "list"}
     THEN /\ tests' = doc.cases
          /\ pc' = "loop"
          /\ out' = Append(out, Banner(Len(doc.cases)))
          /\ UNCHANGED <<aborted, exitCode>>
     ELSE /\ Abort("startup")
          /\ UNCHANGED tests
  /\ UNCHANGED <<env, i, results, ret, procs, outcomes, summaryPrinted, ev>>

\* test_name of line 73.
TestName(case, idx) == Get(case.name, TestLabel(idx))

\* The loop header and lines 73-74 of run_all_tests: take the next case and
\* print its name at the head of the progress line; when the list is
\* exhausted run_all_tests returns.  A case with no .get raises
\* AttributeError at line 73, and a name that the standard output cannot
\* encode raises UnicodeEncodeError in the print of line 74 with nothing
\* printed; nothing below main() catches either.
NextCase ==
  /\ pc = "loop"
  /\ IF i = Len(tests)
     THEN /\ pc' = "summary"
          /\ UNCHANGED <<i, aborted, exitCode, out>>
     ELSE /\ i' = i + 1
          /\ IF tests[i + 1].obj /\ Encodable(TestName(tests[i + 1], i + 1).v)
             THEN /\ pc' = "fields"
                  /\ out' = Append(out, Prefix(i + 1, Len(tests),
                                               TestName(tests[i + 1], i + 1)))
                  /\ UNCHANGED <<aborted, exitCode>>
             ELSE Abort("case")
  /\ UNCHANGED <<env, tests, results, ret, procs, outcomes, summaryPrinted, ev>>

\* Lines 36-38 of run_single_test, before its try: the three .get calls and
\* .strip() on the expected value, which raises AttributeError on a value
\* that is no string.
ReadFields ==
  /\ pc = "fields"
  /\ IF Get(tests[i].expected, <<>>).t = "str"
     THEN /\ pc' = "popen"
          /\ UNCHANGED <<aborted, exitCode, out>>
     ELSE Abort("case")
  /\ UNCHANGED <<env, tests, i, results, ret, procs, outcomes, summaryPrinted, ev>>

\* expected_output of line 38.
ExpectedOutput(case) == Strip(Get(case.expected, <<>>).v)

\* What communicate writes for the input_data of line 37: the string, and
\* nothing for None (communicate(input=None) only closes the stdin).
InputData(case) == Get(case.input, <<>>).v

\* A child just created: nothing written to its stdin, nothing read from it.
NewProc(idx) ==
  [case |-> idx, state |-> "running", pipes |-> TRUE, timedOut |-> FALSE,
   killed |-> FALSE, stdin |-> None, stdout |-> None]

\* What run_single_test returns when Popen raises (lines 64-65).
SpawnFailed == [passed |-> FALSE, actual |-> None, error |-> ExecError("spawn")]

\* What Popen() does first (subprocess._cleanup): the children of earlier
\* calls that were left unreaped and have exited since are reaped, and their
\* pipes are closed with their Popen objects.
Cleanup(ps) ==
  [k \in 1..Len(ps) |->
     IF ps[k].state = "dead"
     THEN [ps[k] EXCEPT !.state = "reaped", !.pipes = FALSE]
     ELSE ps[k]]

\* subprocess.Popen of lines 41-47.  After the cleanup the operating system
\* either creates the child with its three pipes, or Popen raises (not
\* executable, exec format error, a relative path not on PATH) after closing
\* what it opened, and the handler of lines 64-65 returns the error.
Popen ==
  /\ pc = "popen"
  /\ \/ /\ procs' = Append(Cleanup(procs), NewProc(i))
        /\ pc' = "communicate"
        /\ UNCHANGED ret
     \/ /\ ret' = SpawnFailed
        /\ pc' = "fold"
        /\ procs' = Cleanup(procs)
  /\ UNCHANGED <<env, tests, i, results, outcomes, aborted, exitCode, summaryPrinted,
                 ev, out>>

\* What the subject binary may write to its stderr.
ErrOutputs == { <<>>, <<"b">>, <<Undecodable>> }

\* The child after communicate() returned normally: communicate has written
\* to its stdin what the child took of the input (a child that exits without
\* reading breaks the pipe, which communicate ignores) and closed it, read
\* its output to the end, called wait() and closed the pipes.
Collected(p, written, stdout) ==
  [p EXCEPT !.state = "reaped", !.pipes = FALSE,
            !.stdin = Some(written), !.stdout = Some(stdout)]

\* What run_single_test returns when communicate cannot decode what the
\* child wrote (lines 64-65).
DecodeFailed == [passed |-> FALSE, actual |-> None, error |-> ExecError("decode")]

\* Lines 49-59: what run_single_test returns from the stdout and stderr the
\* child wrote.  communicate decodes both, and raises on either.
SingleTestResult(stdout, stderr, expected_output) ==
  IF Decodable(stdout) /\ Decodable(stderr)
  THEN Evaluate(stdout, expected_output)
  ELSE DecodeFailed

\* The child of a call that returns without having waited for it: when it
\* has exited already, dropping the Popen object reaps it and closes its
\* pipes; when it is still running it is left as it is, pipes open.
Dropped(p) ==
  IF p.state = "dead" THEN [p EXCEPT !.state = "reaped", !.pipes = FALSE] ELSE p

\* What has reached the child's stdin when communicate raises TimeoutExpired:
\* the input or the part of it the child took, with the stdin closed, or,
\* when the child has not read a non-empty input to its end, less than the
\* input with the stdin still open.
WrittenAtTimeout(input) ==
  { Some(w) : w \in Prefixes(input) }
    \cup { Unclosed(w) : w \in Prefixes(input) \ {input} }

\* Whether a pipe of child p is open when communicate raises
\* TimeoutExpired: communicate closes the stdout and the stderr of a child
\* as soon as the child's end of them is closed, so with the stdin closed
\* too none may be left open although the child runs on.  (With a child
\* that has exited, communicate is still waiting on an open pipe.)
PipesAtTimeout(p, stdin) ==
  IF stdin.some /\ p.state = "running" THEN BOOLEAN ELSE {TRUE}

\* The input_data on which communicate raises when it encodes it: a value
\* that is neither a string nor None, or a string with a character that
\* cannot be encoded.
InputRaises(input) ==
  \/ input.t \in {"num", "falsy"}
  \/ input.t = "str" /\ ~Encodable(input.v)

\* process.communicate of lines 49-59.  communicate closes the stdin at once
\* when the input is false in Python, then encodes the input: when that
\* raises, nothing is written, the handler of lines 64-65 returns the error
\* and nobody kills or waits for the child.  Otherwise communicate collects
\* the child, which has exited by the deadline having written some stdout,
\* or it raises TimeoutExpired (the child still running, with or without a
\* pipe open, or gone with its pipes held open by a process it started).
Communicate ==
  /\ pc = "communicate"
  /\ LET p == Len(procs)
         input == Get(tests[i].input, <<>>)
     IN IF InputRaises(input)
        THEN /\ ret' = [passed |-> FALSE, actual |-> None, error |-> ExecError("input")]
             /\ pc' = "fold"
             /\ procs' = [procs EXCEPT
                            ![p] = Dropped([procs[p] EXCEPT
                                     !.stdin = IF input.t = "falsy" THEN Some(<<>>) ELSE @])]
        ELSE \/ \E stdout \in Outputs, stderr \in ErrOutputs,
                   w \in Prefixes(InputData(tests[i])) :
                  /\ procs' = [procs EXCEPT ![p] = Collected(procs[p], w, stdout)]
                  /\ ret' = SingleTestResult(stdout, stderr, ExpectedOutput(tests[i]))
                  /\ pc' = "fold"
             \/ /\ \E w \in WrittenAtTimeout(InputData(tests[i])) :
                      \E open \in PipesAtTimeout(procs[p], w) :
                         procs' = [procs EXCEPT ![p].timedOut = TRUE, ![p].stdin = w,
                                                ![p].pipes = open]
                /\ pc' = "kill"
                /\ UNCHANGED ret
  /\ UNCHANGED <<env, tests, i, results, outcomes, aborted, exitCode, summaryPrinted,
                 ev, out>>

\* What run_single_test returns from the TimeoutExpired handler (line 63).
TimedOut(limit) == [passed |-> FALSE, actual |-> None, error |-> TimeoutError(limit)]

\* The states the child can be in when run_single_test returns after
\* process.kill() of line 62 has sent SIGKILL: the signal is asynchronous
\* and nothing in the handler waits, so the child is still running, or a
\* zombie, or it was reaped when the Popen object was dropped.
KilledStates == {"running", "dead", "reaped"}

\* The TimeoutExpired handler of lines 61-63.  kill() polls the child first:
\* one that has exited by itself is reaped and gets no signal.  Otherwise
\* kill() sends SIGKILL and the handler returns the timeout, or the signal is
\* refused (PermissionError) and the exception leaves the handler for
\* main().  Nothing in the handler closes a pipe: the pipes that were open at
\* the timeout stay open unless the child is reaped when the Popen object is
\* dropped.
Kill ==
  /\ pc = "kill"
  /\ LET p == Len(procs)
     IN IF procs[p].state = "dead"
        THEN /\ procs' = [procs EXCEPT ![p].state = "reaped", ![p].pipes = FALSE]
             /\ ret' = TimedOut(timeout)
             /\ pc' = "fold"
             /\ UNCHANGED <<aborted, exitCode, out>>
        ELSE \/ /\ \E st \in KilledStates :
                      procs' = [procs EXCEPT ![p].killed = TRUE,
                                             ![p].state = st,
                                             ![p].pipes = (st # "reaped" /\ @)]
                /\ ret' = TimedOut(timeout)
                /\ pc' = "fold"
                /\ UNCHANGED <<aborted, exitCode, out>>
             \/ /\ Abort("case")
                /\ UNCHANGED <<procs, ret>>
  /\ UNCHANGED <<env, tests, i, results, outcomes, summaryPrinted, ev>>

\* failure_info with the stripped expected_output in the place of the field.
FailureInfoTrimmed(case, idx, r) ==
  [test |-> TestName(case, idx),
   input |-> Get(case.input, <<>>),
   expected |-> StrV(ExpectedOutput(case)),
   actual |-> r.actual,
   error |-> r.error]

\* failure_info of lines 89-95.
FailureInfo(case, idx, r) ==
  [test |-> TestName(case, idx),
   input |-> Get(case.input, <<>>),
   expected |-> Get(case.expected, <<>>),
   actual |-> r.actual,
   error |-> r.error]

\* The total counted in the passing branch only.
FoldResultSkipsTotal(res, case, idx, r) ==
  IF r.passed
  THEN [res EXCEPT !.total = @ + 1, !.passed = @ + 1]
  ELSE [res EXCEPT !.failed = @ + 1,
                   !.failures = Append(@, FailureInfo(case, idx, r))]

\* The newest failure put first.
FoldResultPrepends(res, case, idx, r) ==
  IF r.passed
  THEN [res EXCEPT !.total = @ + 1, !.passed = @ + 1]
  ELSE [res EXCEPT !.total = @ + 1, !.failed = @ + 1,
                   !.failures = <<FailureInfo(case, idx, r)>> \o @]

\* Lines 80-96: the counters and the failure list after one result.
FoldResult(res, case, idx, r) ==
  IF r.passed
  THEN [res EXCEPT !.total = @ + 1, !.passed = @ + 1]
  ELSE [res EXCEPT !.total = @ + 1, !.failed = @ + 1,
                   !.failures = Append(@, FailureInfo(case, idx, r))]

\* The details of a failure printed whatever the verbose setting.
ReportDetailsAlways(verb, case, idx, r) ==
  IF r.passed
  THEN <<Verdict(idx, TRUE)>>
  ELSE <<Verdict(idx, FALSE), Detail(idx, FailureInfo(case, idx, r))>>

\* What lines 84-99 print for one result: the verdict, and under verbose the
\* details of a failure.
Report(verb, case, idx, r) ==
  IF r.passed
  THEN <<Verdict(idx, TRUE)>>
  ELSE IF verb
       THEN <<Verdict(idx, FALSE), Detail(idx, FailureInfo(case, idx, r))>>
       ELSE <<Verdict(idx, FALSE)>>

\* Lines 77-99 of run_all_tests once run_single_test has returned.
Fold ==
  /\ pc = "fold"
  /\ results' = FoldResult(results, tests[i], i, ret)
  /\ outcomes' = Append(outcomes, ret)
  /\ out' = out \o Report(verbose, tests[i], i, ret)
  /\ ret' = NoRet
  /\ pc' = "loop"
  /\ UNCHANGED <<env, tests, i, procs, aborted, exitCode, summaryPrinted, ev>>

\* Success only when at least one test ran.
ExitStatusNeedsTests(res) == IF res.failed = 0 /\ res.total > 0 THEN 0 ELSE 1

\* The return value of print_summary (line 130).
ExitStatus(res) == IF res.failed = 0 THEN 0 ELSE 1

\* What print_summary has printed when the print of line 120 raises: the
\* counts and the heading of the failure list (lines 112-118), no failure.
SummaryHead(res) ==
  Printed("summaryHead", 0, 0, StrV(<<>>), FALSE, <<>>,
          <<res.total, res.passed, res.failed>>)

\* print_summary emptying the failure list it has printed.
PrintSummaryClears ==
  /\ pc = "summary"
  /\ \/ /\ summaryPrinted' = TRUE
        /\ exitCode' = ExitStatus(results)
        /\ out' = Append(out, SummaryBlock(results))
        /\ UNCHANGED aborted
     \/ /\ results.failed > 0
        /\ exitCode' = 1
        /\ aborted' = "summary"
        /\ out' = out \o <<SummaryHead(results), ErrorLine>>
        /\ UNCHANGED summaryPrinted
  /\ results' = [results EXCEPT !.failures = <<>>]
  /\ pc' = "exited"
  /\ UNCHANGED <<env, tests, i, ret, procs, outcomes, ev>>

\* print_summary and sys.exit of lines 148-149.  Line 120 prints a bullet
\* that is not ASCII before each failure: on a standard output that cannot
\* encode it the print raises at the first failure listed, and main()'s
\* handler prints the error and exits 1 with the summary cut short.
PrintSummary ==
  /\ pc = "summary"
  /\ \/ /\ summaryPrinted' = TRUE
        /\ exitCode' = ExitStatus(results)
        /\ out' = Append(out, SummaryBlock(results))
        /\ UNCHANGED aborted
     \/ /\ results.failed > 0
        /\ exitCode' = 1
        /\ aborted' = "summary"
        /\ out' = out \o <<SummaryHead(results), ErrorLine>>
        /\ UNCHANGED summaryPrinted
  /\ pc' = "exited"
  /\ UNCHANGED <<env, tests, i, results, ret, procs, outcomes, ev>>

\* A running child exits, by itself or from the SIGKILL it was sent, and is
\* a zombie until somebody reaps it.
ChildExits ==
  /\ \E k \in 1..Len(procs) :
        /\ procs[k].state = "running"
        /\ procs' = [procs EXCEPT ![k].state = "dead"]
  /\ UNCHANGED <<env, pc, tests, i, results, ret, outcomes, aborted, exitCode,
                 summaryPrinted, ev, out>>

RunnerNext ==
  \/ Construct
  \/ LoadTests
  \/ NextCase
  \/ ReadFields
  \/ Popen
  \/ Communicate
  \/ Kill
  \/ Fold
  \/ PrintSummary

Next == RunnerNext \/ ChildExits

Spec == Init /\ [][Next]_vars

\* The suite loads and every case of it can be read: each is an object whose
\* name can be printed and whose expected value, when present, is a string.
Runnable ==
  /\ binaryExists /\ testsExists
  /\ doc.shape \in {"list", "object"}
  /\ \A k \in 1..Len(doc.cases) :
        /\ doc.cases[k].obj
        /\ Encodable(TestName(doc.cases[k], k).v)
        /\ doc.cases[k].expected.t \in {"str", "absent"}

\* The runs of readable suites under the default timeout.
LiveInit == Init /\ Runnable /\ timeout = DefaultTimeout

\* The interpreter runs main() to its end: no step of the runner waits forever
\* (communicate has a deadline), whatever the children do.
LiveSpec == LiveInit /\ [][Next]_vars /\ WF_vars(RunnerNext)

\* ------------------------------------------ longer suites of well-formed cases
\* The runs of main() on suites of up to MaxSuite cases that all have the
\* same name and no input, and expect "a" or nothing, with both files
\* present and the default command line.
SuiteCases ==
  { Case(StrV(<<"A">>), Absent, StrV(<<"a">>)),
    Case(StrV(<<"A">>), Absent, Absent) }

InitSuite ==
  /\ binaryExists = TRUE
  /\ testsExists = TRUE
  /\ doc \in { Doc("list", cs) : cs \in SeqsUpTo(SuiteCases, MaxSuite) }
  /\ timeout = DefaultTimeout
  /\ verbose = FALSE
  /\ out = <<>>
  /\ dl = DlIdle
  /\ pc = "init"
  /\ tests = <<>>
  /\ i = 0
  /\ results = InitResults
  /\ ret = NoRet
  /\ procs = <<>>
  /\ outcomes = <<>>
  /\ aborted = "no"
  /\ exitCode = -1
  /\ summaryPrinted = FALSE
  /\ ev = NoEv

SpecSuite == InitSuite /\ [][Next]_vars

\* ------------------------------------------------- the comparison on its own
\* Every string of at most MaxStrLen characters.
Strs == SeqsUpTo(Chars, MaxStrLen)

InitCmp ==
  /\ binaryExists = TRUE
  /\ testsExists = TRUE
  /\ doc = Doc("list", <<>>)
  /\ timeout = DefaultTimeout
  /\ verbose = FALSE
  /\ out = <<>>
  /\ dl = DlIdle
  /\ pc = "evaluate"
  /\ tests = <<>>
  /\ i = 0
  /\ results = InitResults
  /\ ret = NoRet
  /\ procs = <<>>
  /\ outcomes = <<>>
  /\ aborted = "no"
  /\ exitCode = -1
  /\ summaryPrinted = FALSE
  /\ \E a \in Strs, e \in Strs :
        ev = [stdout |-> a, expected |-> e, done |-> FALSE, result |-> NoRet]

\* Line 38 and lines 54-59 applied to one (stdout, expected) pair.
EvaluateStep ==
  /\ pc = "evaluate"
  /\ ~ev.done
  /\ ev' = [ev EXCEPT !.done = TRUE,
                      !.result = Evaluate(ev.stdout, Strip(ev.expected))]
  /\ UNCHANGED <<env, pc, tests, i, results, ret, procs, outcomes, aborted,
                 exitCode, summaryPrinted, out>>

NextCmp == EvaluateStep

SpecCmp == InitCmp /\ [][NextCmp]_vars

\* ------------------------------------- two executions that differ in stderr
\* The same test case run twice: the child writes the same stdout and exits
\* within the timeout both times, and writes stderr1 the first time and
\* stderr2 the second, bytes that are no text among them.  Each result is
\* folded into a fresh self.results.
ErrStrs == SeqsUpTo(Chars \cup {Undecodable}, MaxErrLen)
PairStdouts == Outputs \cup { <<"a">>, <<"b">> }
PairCases ==
  { Case(StrV(<<"A">>), StrV(<<"x">>), StrV(<<"a", "\n">>)),
    Case(Absent, Absent, Absent) }

InitErr ==
  /\ binaryExists = TRUE
  /\ testsExists = TRUE
  /\ doc = Doc("list", <<>>)
  /\ timeout = DefaultTimeout
  /\ verbose = FALSE
  /\ out = <<>>
  /\ dl = DlIdle
  /\ pc = "pair"
  /\ tests = <<>>
  /\ i = 0
  /\ results = InitResults
  /\ ret = NoRet
  /\ procs = <<>>
  /\ outcomes = <<>>
  /\ aborted = "no"
  /\ exitCode = -1
  /\ summaryPrinted = FALSE
  /\ \E c \in PairCases, so \in PairStdouts, e1 \in ErrStrs, e2 \in ErrStrs :
        ev = [case |-> c, stdout |-> so, stderr1 |-> e1, stderr2 |-> e2,
              done |-> FALSE, r1 |-> NoRet, r2 |-> NoRet,
              agg1 |-> InitResults, agg2 |-> InitResults]

\* Lines 49-59 and 80-96 applied to both executions.
RunPair ==
  /\ pc = "pair"
  /\ ~ev.done
  /\ LET r1 == SingleTestResult(ev.stdout, ev.stderr1, ExpectedOutput(ev.case))
         r2 == SingleTestResult(ev.stdout, ev.stderr2, ExpectedOutput(ev.case))
     IN ev' = [ev EXCEPT !.done = TRUE, !.r1 = r1, !.r2 = r2,
                         !.agg1 = FoldResult(InitResults, ev.case, 1, r1),
                         !.agg2 = FoldResult(InitResults, ev.case, 1, r2)]
  /\ UNCHANGED <<env, pc, tests, i, results, ret, procs, outcomes, aborted,
                 exitCode, summaryPrinted, out>>

NextErr == RunPair

SpecErr == InitErr /\ [][NextErr]_vars

\* ------------------------------------------------ the downloader (main.py)
\* src/main.py line 15.
CONSECUTIVE_MISSES_LIMIT == 25

\* What SESSION.get of line 72 can give: a RequestException, or a response
\* with its status code and whether b"404" is in its first 512 bytes.  Of a
\* page that is handed to process_html (line 79): imgs, the requests that
\* download_image makes for its images (line 36; a failed one is caught at
\* line 38), and saved, FALSE when process_html raises: a file or directory
\* that cannot be written (lines 34, 41, 48), or a standard output that
\* cannot encode the marks printed at lines 42 and 49.
NetworkError ==
  [raised |-> TRUE, status |-> 0, has404 |-> FALSE, imgs |-> 0, saved |-> FALSE]
Response(status, has404) ==
  [raised |-> FALSE, status |-> status, has404 |-> has404, imgs |-> 0, saved |-> FALSE]
Page(imgs, saved) ==
  [raised |-> FALSE, status |-> 200, has404 |-> FALSE, imgs |-> imgs, saved |-> saved]
\* The image requests one page may cause in the model.
ImageRequests == {0, 1}
Responses ==
  { NetworkError, Response(200, TRUE), Response(404, FALSE) }
    \cup { Page(n, sv) : n \in ImageRequests, sv \in BOOLEAN }

\* valid of line 77.
Valid(resp) == resp.status = 200 /\ ~resp.has404

\* A network error counted as a miss.
AfterResponseCountsErrors(s, resp) ==
  IF Valid(resp) /\ ~resp.raised
  THEN IF resp.saved
       THEN [s EXCEPT !.found_any = TRUE, !.misses = 0]
       ELSE [s EXCEPT !.pc = "raised"]
  ELSE IF s.found_any
       THEN [s EXCEPT !.misses = @ + 1,
                      !.pc = IF s.misses + 1 >= CONSECUTIVE_MISSES_LIMIT
                             THEN "stopped" ELSE "loop"]
       ELSE s

\* Lines 71-87, the body of the loop on one response: misses and found_any
\* afterwards, pc "stopped" when the loop breaks, and pc "raised" when
\* process_html raises at line 79, before found_any and misses are written:
\* the exception leaves download_series.
AfterResponse(s, resp) ==
  IF resp.raised THEN s
  ELSE IF Valid(resp)
       THEN IF resp.saved
            THEN [s EXCEPT !.found_any = TRUE, !.misses = 0]
            ELSE [s EXCEPT !.pc = "raised"]
  ELSE IF s.found_any
       THEN [s EXCEPT !.misses = @ + 1,
                      !.pc = IF s.misses + 1 >= CONSECUTIVE_MISSES_LIMIT
                             THEN "stopped" ELSE "loop"]
       ELSE s

\* download_series called with some max_num (lines 65-67).  pageGets,
\* imageGets, sinceValid and last are history: the requests made for pages
\* (line 72) and for images (line 36), the invalid responses received since
\* the last valid page (or since the start), and the kind of the last
\* response.
InitDl ==
  /\ binaryExists = TRUE
  /\ testsExists = TRUE
  /\ doc = Doc("list", <<>>)
  /\ timeout = DefaultTimeout
  /\ verbose = FALSE
  /\ out = <<>>
  /\ pc = "download"
  /\ tests = <<>>
  /\ i = 0
  /\ results = InitResults
  /\ ret = NoRet
  /\ procs = <<>>
  /\ outcomes = <<>>
  /\ aborted = "no"
  /\ exitCode = -1
  /\ summaryPrinted = FALSE
  /\ ev = NoEv
  /\ \E n \in 0..MaxNum : dl = [DlIdle EXCEPT !.pc = "loop", !.max_num = n]

\* One iteration of the loop of lines 68-87: the request for the page, and
\* for a valid page the requests process_html makes for its images.
Fetch ==
  /\ pc = "download"
  /\ dl.pc = "loop"
  /\ dl.num < dl.max_num
  /\ \E resp \in Responses :
        dl' = [AfterResponse([dl EXCEPT !.num = @ + 1], resp) EXCEPT
                 !.pageGets = @ + 1,
                 !.imageGets = IF ~resp.raised /\ Valid(resp) THEN @ + resp.imgs ELSE @,
                 !.sinceValid = IF resp.raised THEN @
                                ELSE IF resp.status = 200 /\ ~resp.has404 THEN 0
                                ELSE @ + 1,
                 !.last = IF resp.raised THEN "error"
                          ELSE IF resp.status = 200 /\ ~resp.has404 THEN "valid"
                          ELSE "invalid"]
  /\ UNCHANGED <<binaryExists, testsExists, doc, timeout, verbose, pc, tests, i,
                 results, ret, procs, outcomes, aborted, exitCode, summaryPrinted,
                 ev, out>>

\* range(1, max_num + 1) exhausted: download_series returns.
SeriesDone ==
  /\ pc = "download"
  /\ dl.pc = "loop"
  /\ dl.num = dl.max_num
  /\ dl' = [dl EXCEPT !.pc = "done"]
  /\ UNCHANGED <<binaryExists, testsExists, doc, timeout, verbose, pc, tests, i,
                 results, ret, procs, outcomes, aborted, exitCode, summaryPrinted,
                 ev, out>>

NextDl == Fetch \/ SeriesDone

SpecDl == InitDl /\ [][NextDl]_vars

\* ------------------------------------------------------------------ claims
IsPrefix(a, b) == Len(a) <= Len(b) /\ SubSeq(b, 1, Len(a)) = a

\* The run_single_test call that created child k has returned.
Returned(k) == k < Len(procs) \/ pc \notin {"communicate", "kill"}

\* The result of the call for case c, once it has returned.
ResultOf(c) == IF c <= Len(outcomes) THEN outcomes[c] ELSE ret

\* C1: after every processed test case passed + failed = total and the
\* failure list is as long as the failed count; the total is the number of
\* cases processed so far, and once run_all_tests has returned it is the
\* number of cases of the suite.
C1_CountsConsistent ==
  /\ results.passed + results.failed = results.total
  /\ Len(results.failures) = results.failed
  /\ results.total = Len(outcomes)
  /\ (pc = "summary" \/ summaryPrinted) => results.total = Len(tests)

C1_Witness ==
  /\ summaryPrinted
  /\ Len(tests) = 2
  /\ results.total = 2
  /\ results.passed = 1
  /\ results.failed = 1

\* print_summary has been called: it has printed the summary, or it raised
\* while printing it.
SummaryReached == summaryPrinted \/ aborted = "summary"

\* C2: whatever the per-test outcomes (passed, mismatch, timeout, spawn or
\* execution error), a run of a readable suite goes on through every case:
\* eventually every case has an outcome and print_summary has been reached.
C2_SuiteRunsToSummary ==
  (pc = "init" /\ Runnable)
    ~> (pc = "exited" /\ SummaryReached /\ Len(outcomes) = Len(doc.cases))

\* Reading the fields of the case raises: it is no object, or its expected
\* value is no string.
FieldReadFails(case) == ~case.obj \/ case.expected.t \notin {"str", "absent"}

\* C3: no failure raised while a case of a suite list is processed escapes
\* run_all_tests: the run reaches the summary with a result for every case,
\* and a case whose fields cannot be read has an 'Error: ...' result.
C3_CaseFailuresRecorded ==
  doc.shape = "list" =>
    /\ aborted # "case"
    /\ pc = "exited" /\ tests # <<>> => SummaryReached /\ Len(outcomes) = Len(tests)
    /\ \A k \in 1..Len(outcomes) :
          FieldReadFails(tests[k]) => outcomes[k].error.kind = "Error"

\* The characters of s between its first and its last non-whitespace one.
NonWs(s) == {k \in 1..Len(s) : s[k] \notin {" ", "\n"}}
Least(S) == CHOOSE x \in S : \A y \in S : x <= y
Greatest(S) == CHOOSE x \in S : \A y \in S : x >= y
TrimBoth(s) == IF NonWs(s) = {} THEN <<>> ELSE SubSeq(s, Least(NonWs(s)), Greatest(NonWs(s)))
TrimTrailing(s) == IF NonWs(s) = {} THEN <<>> ELSE SubSeq(s, 1, Greatest(NonWs(s)))

\* C4 as amended: the verdict is Passed iff stdout and expected are equal
\* once leading and trailing whitespace is removed from both, and the actual
\* output reported is the stdout so trimmed.
C4_StripBothEnds ==
  ev.done =>
    /\ ev.result.passed <=> TrimBoth(ev.stdout) = TrimBoth(ev.expected)
    /\ ev.result.actual = Some(TrimBoth(ev.stdout))
    /\ ev.result.error.kind = IF ev.result.passed THEN "None" ELSE "Output mismatch"

C4_Witness ==
  /\ ev.done
  /\ ev.stdout = <<" ", "a", "\n">>
  /\ ev.expected = <<"a">>
  /\ ev.result.passed

\* C4 as stated: the verdict is Passed iff stdout and expected are equal once
\* only trailing whitespace is removed, so strings that differ in leading
\* whitespace are a mismatch.
C4_StripTrailingOnly ==
  ev.done =>
    (ev.result.passed <=> TrimTrailing(ev.stdout) = TrimTrailing(ev.expected))

\* C5: a call whose child did not exit within the timeout returns with the
\* child terminated or SIGKILL on its way to it, no actual output and the
\* error Timeout(<the configured limit>); folding that result raises the
\* failed count by exactly one and leaves the passed count alone.
C5_TimeoutKilledAndCounted ==
  /\ [](\A k \in 1..Len(procs) :
          procs[k].timedOut /\ Returned(k) =>
            /\ procs[k].state # "running" \/ procs[k].killed
            /\ ResultOf(procs[k].case) =
                 [passed |-> FALSE, actual |-> None,
                  error |-> [kind |-> "Timeout", limit |-> timeout, cause |-> ""]])
  /\ [][pc = "fold" /\ pc' = "loop" /\ ret.error.kind = "Timeout" =>
          /\ results'.failed = results.failed + 1
          /\ results'.passed = results.passed
          /\ results'.total = results.total + 1]_vars

\* C6: every call creates at most one child, and once the call has returned
\* its child is reaped and the child's pipes are closed.
C6_HandlesReleased ==
  /\ \A k \in 1..Len(procs) :
        Returned(k) => procs[k].state = "reaped" /\ ~procs[k].pipes
  /\ \A k, j \in 1..Len(procs) : procs[k].case = procs[j].case => k = j

\* The failure records of the first n results, in suite order.
RECURSIVE FailuresOf(_)
FailuresOf(n) ==
  IF n = 0 THEN <<>>
  ELSE IF outcomes[n].passed
       THEN FailuresOf(n - 1)
       ELSE Append(FailuresOf(n - 1), FailureInfo(tests[n], n, outcomes[n]))

\* C7: the failure list is at all times the list of the cases that did not
\* pass, in suite order, one record each, and it only grows at its end.
C7_FailuresInOrder ==
  /\ [](results.failures = FailuresOf(Len(outcomes)))
  /\ [][IsPrefix(results.failures, results'.failures)]_vars

\* Three cases of the same name: the first and the third fail, the second
\* passes, and each failure has its record, the timeout before the mismatch.
C7_Witness ==
  /\ summaryPrinted
  /\ Len(tests) = 3
  /\ \A k \in 1..3 : tests[k].name = [t |-> "str", v |-> <<"A">>]
  /\ ~outcomes[1].passed /\ outcomes[2].passed /\ ~outcomes[3].passed
  /\ Len(results.failures) = 2
  /\ results.failures[1].test = results.failures[2].test
  /\ results.failures[1].error.kind = "Timeout"
  /\ results.failures[2].error.kind = "Output mismatch"

\* The suite file holds no top-level list of test cases, or a file is missing.
LoadFailure == ~binaryExists \/ ~testsExists \/ doc.shape # "list"

\* C8: the process exits 0 exactly when the run completed (the summary was
\* printed) with no failed test, and exits 1 when a test failed, when an
\* error stopped the run, and when a file is missing or the suite is
\* malformed (no top-level list of test cases); it has no exit status before
\* it exits.
C8_ExitStatus ==
  /\ pc = "exited" =>
       /\ exitCode \in {0, 1}
       /\ exitCode = 0 <=> (summaryPrinted /\ results.failed = 0)
       /\ (results.failed > 0 \/ aborted # "no") => exitCode = 1
       /\ LoadFailure => exitCode = 1
  /\ pc # "exited" => exitCode = -1

\* C9: when a file is missing or the suite has no top-level list of cases,
\* no child is ever spawned and the process exits nonzero.
C9_LoadFailuresFatal ==
  LoadFailure =>
    /\ procs = <<>>
    /\ pc = "exited" => exitCode = 1

\* C10: a case is started only when all earlier cases are folded into the
\* aggregate, and at no time is more than one child alive.
C10_OneChildAtATime ==
  /\ pc \in {"fields", "popen", "communicate", "kill", "fold"} => Len(outcomes) = i - 1
  /\ Cardinality({k \in 1..Len(procs) : procs[k].state = "running"}) <= 1

\* Where case k is in its lifecycle: it has a recorded outcome, or the loop
\* has begun it and it has none yet, or the loop has not reached it.
Status(k) ==
  IF k <= Len(outcomes)
  THEN IF outcomes[k].passed THEN "Passed" ELSE "Failed"
  ELSE IF k <= i THEN "Running" ELSE "Pending"

\* C11: cases are begun in suite order, one at a time; a Passed outcome
\* carries no error and a Failed one exactly one of Output mismatch, Timeout
\* and Error; and when the process has exited after loading a list of test
\* case objects, every case has its outcome (none is left Pending or Running).
C11_Lifecycle ==
  /\ Len(outcomes) <= i /\ i <= Len(outcomes) + 1
  /\ \A k \in 1..Len(outcomes) :
        /\ outcomes[k].passed => outcomes[k].error.kind = "None"
        /\ ~outcomes[k].passed =>
             outcomes[k].error.kind \in {"Output mismatch", "Timeout", "Error"}
  /\ (pc = "exited" /\ doc.shape = "list" /\ \A k \in 1..Len(tests) : tests[k].obj) =>
        \A k \in 1..Len(tests) : Status(k) \in {"Passed", "Failed"}

\* The cases among the first n that did not pass, in suite order.
RECURSIVE FailedCases(_)
FailedCases(n) ==
  IF n = 0 THEN <<>>
  ELSE IF outcomes[n].passed THEN FailedCases(n - 1)
       ELSE Append(FailedCases(n - 1), n)

\* The field of a case as the suite file has it, the empty string when missing.
Original(field) == IF field.t = "absent" THEN [t |-> "str", v |-> <<>>] ELSE field

\* The child created for case k.
ProcOf(k) == procs[CHOOSE p \in 1..Len(procs) : procs[p].case = k]

\* C12: the n-th failure record belongs to the n-th case that did not pass;
\* its input and expected are that case's fields as loaded (untrimmed); for
\* a mismatch its actual is the child's stdout with the whitespace at both
\* ends removed; for a timeout or an error it has the message and no actual.
C12_FailureRecordContent ==
  LET failed == FailedCases(Len(outcomes))
  IN /\ Len(results.failures) = Len(failed)
     /\ \A n \in 1..Len(failed) :
          LET k == failed[n]
              rec == results.failures[n]
          IN /\ rec.input = Original(tests[k].input)
             /\ rec.expected = Original(tests[k].expected)
             /\ rec.error.kind \in {"Output mismatch", "Timeout", "Error"}
             /\ rec.error.kind = "Output mismatch" =>
                  /\ ProcOf(k).stdout.some
                  /\ rec.actual = Some(TrimBoth(ProcOf(k).stdout.v))
             /\ rec.error.kind = "Timeout" =>
                  rec.actual = None /\ rec.error.limit = timeout
             /\ rec.error.kind = "Error" =>
                  rec.actual = None /\ rec.error.cause # ""

C12_Witness ==
  /\ timeout = 1
  /\ Len(results.failures) = 2
  /\ results.failures[1].error.kind = "Output mismatch"
  /\ results.failures[1].expected.v = <<"a", "\n">>
  /\ results.failures[1].actual = Some(<<>>)
  /\ results.failures[2].error.kind = "Output mismatch"
  /\ results.failures[2].actual = Some(<<"a">>)

\* C13: two executions of the same case that agree on stdout and differ
\* only in what the child wrote to stderr return the same (passed, actual,
\* error) and leave the same counts and failure records.
C13_StderrIgnored ==
  ev.done => ev.r1 = ev.r2 /\ ev.agg1 = ev.agg2

\* 'Test k' for a one-digit k.
PositionalLabel(k) ==
  <<"T", "e", "s", "t", " ", <<"0", "1", "2", "3", "4", "5", "6", "7", "8", "9">>[k + 1]>>

\* C14: a case without 'name' is printed and recorded under 'Test k' for its
\* 1-based index k; a case without 'input' has the empty input written to its
\* child and no input error; a case without 'expected' passes exactly when
\* the child's trimmed stdout is empty; and no missing field ever aborts the
\* run: an abort at a case object comes from the timeout handler of its
\* child, or from a field that is present (a name that cannot be printed, an
\* expected value that is no string).
C14_MissingFieldsDefaulted ==
  LET failed == FailedCases(Len(outcomes))
  IN /\ \A n \in 1..Len(out) :
          (out[n].kind = "prefix" /\ tests[out[n].idx].name.t = "absent") =>
             out[n].name = [t |-> "str", v |-> PositionalLabel(out[n].idx)]
     /\ \A n \in 1..Len(failed) :
          tests[failed[n]].name.t = "absent" =>
             results.failures[n].test = [t |-> "str", v |-> PositionalLabel(failed[n])]
     /\ \A p \in 1..Len(procs) :
          (tests[procs[p].case].input.t = "absent" /\ procs[p].stdin.some) =>
             procs[p].stdin.v = <<>>
     /\ \A k \in 1..Len(outcomes) :
          /\ tests[k].obj /\ tests[k].input.t = "absent" =>
               outcomes[k].error.cause # "input"
          /\ (tests[k].obj /\ tests[k].expected.t = "absent"
                /\ outcomes[k].error.kind \in {"None", "Output mismatch"}) =>
               (outcomes[k].passed <=> TrimBoth(ProcOf(k).stdout.v) = <<>>)
     /\ (aborted = "case" /\ tests[i].obj) =>
          \/ /\ procs # <<>>
             /\ procs[Len(procs)].case = i
             /\ procs[Len(procs)].timedOut
          \/ /\ tests[i].name.t = "str"
             /\ \E k \in 1..Len(tests[i].name.v) : tests[i].name.v[k] = "U+D800"
          \/ tests[i].expected.t \notin {"str", "absent"}

C14_Witness ==
  /\ summaryPrinted
  /\ Len(tests) = 2
  /\ \A k \in 1..2 : tests[k] = Case(Absent, Absent, Absent)
  /\ outcomes[1].passed
  /\ outcomes[2].error.kind = "Output mismatch"
  /\ results.failures[1].test.v = <<"T", "e", "s", "t", " ", "2">>
  /\ procs[2].stdin = Some(<<>>)

\* C15: printing the summary changes none of total, passed, failed and
\* failures, nothing changes them once it is printed, and the test cases are
\* what the suite file holds from the load to the exit.
C15_SummaryNotMutated ==
  [][ /\ (pc \in {"summary", "exited"} =>
            /\ results'.total = results.total
            /\ results'.passed = results.passed
            /\ results'.failed = results.failed
            /\ results'.failures = results.failures)
      /\ (pc \notin {"init", "load"} => tests' = tests)
      /\ (pc = "load" /\ pc' = "loop" => tests' = doc.cases) ]_vars

C15_Witness ==
  /\ pc = "exited"
  /\ out # <<>>
  /\ out[Len(out)].kind = "summary"
  /\ out[Len(out)].counts = <<2, 1, 1>>
  /\ results.total = 2
  /\ Len(results.failures) = 1
  /\ tests = doc.cases

\* C16: with both files present and an empty list under 'test_cases', no
\* child is ever spawned, the counts stay 0 with no failure record, and the
\* process exits only through the summary, with status 0.
C16_EmptySuite ==
  (binaryExists /\ testsExists /\ doc = Doc("list", <<>>)) =>
     /\ procs = <<>>
     /\ results.total = 0 /\ results.passed = 0 /\ results.failed = 0
     /\ results.failures = <<>>
     /\ aborted = "no"
     /\ pc = "exited" =>
          /\ summaryPrinted
          /\ exitCode = 0
          /\ out = <<Banner(0), SummaryBlock(InitResults)>>

C16_Witness ==
  /\ doc = Doc("list", <<>>)
  /\ pc = "exited"
  /\ exitCode = 0
  /\ summaryPrinted
  /\ procs = <<>>

\* C17: a call that has spawned its child has, by the time the wait is over,
\* written the case's input to the child's stdin and closed it; and every
\* call that goes to spawn a child returns an outcome.
C17_CallTerminates ==
  /\ [](\A p \in 1..Len(procs) :
          (Returned(p) \/ pc = "kill") =>
             /\ procs[p].stdin.some
             /\ procs[p].stdin.v = Original(tests[procs[p].case].input).v)
  /\ (pc = "popen") ~> (pc = "fold" /\ ret # NoRet)

IsVerdict(e) == e.kind = "verdict"
VerdictLines == SelectSeq(out, IsVerdict)

\* C18: in every state the verdicts printed so far are those of the cases
\* completed so far, one each and in suite order; a verdict ends the line
\* begun for its own case, and the line of a later case begins only after the
\* verdict of the one before; failure details follow a FAILED verdict at once
\* under verbose, and are printed nowhere else.
C18_LiveOrderedReport ==
  /\ Len(VerdictLines) = Len(outcomes)
  /\ \A k \in 1..Len(outcomes) :
        VerdictLines[k].idx = k /\ VerdictLines[k].passed = outcomes[k].passed
  /\ \A n \in 1..Len(out) :
        /\ out[n].kind = "verdict" =>
             /\ n > 1 /\ out[n - 1].kind = "prefix" /\ out[n - 1].idx = out[n].idx
             /\ (verbose /\ ~out[n].passed) =>
                  /\ n < Len(out)
                  /\ out[n + 1].kind = "detail"
                  /\ out[n + 1].idx = out[n].idx
        /\ out[n].kind = "detail" =>
             /\ verbose
             /\ n > 1 /\ out[n - 1].kind = "verdict" /\ out[n - 1].idx = out[n].idx
             /\ ~out[n - 1].passed
        /\ (out[n].kind = "prefix" /\ out[n].idx > 1) =>
             \E m \in 1..(n - 1) :
                out[m].kind = "verdict" /\ out[m].idx = out[n].idx - 1
        /\ out[n].kind = "prefix" => out[n].idx \in 1..i

C18_Witness ==
  /\ verbose
  /\ Len(outcomes) = 2
  /\ ~outcomes[1].passed /\ outcomes[2].passed
  /\ Len(out) = 6
  /\ out[4].kind = "detail"
  /\ out[6].kind = "verdict" /\ out[6].idx = 2

IsSummary(e) == e.kind = "summary"

\* C19: once an exception has left run_all_tests the process has exited with
\* status 1, the error line is the last thing printed and no summary was or
\* will be printed, whatever the counts at that point; status 0 is reached
\* only through the summary of a run that was not aborted.
C19_AbortedRunExitsOne ==
  /\ aborted = "case" =>
       /\ pc = "exited"
       /\ exitCode = 1
       /\ ~summaryPrinted
       /\ SelectSeq(out, IsSummary) = <<>>
       /\ out[Len(out)] = ErrorLine
  /\ exitCode = 0 => aborted = "no" /\ summaryPrinted

C19_Witness ==
  /\ aborted = "case"
  /\ exitCode = 1
  /\ results.passed = 1
  /\ results.failed = 0
  /\ i = 2

\* SESSION.get calls made so far, for pages and for images.
Attempts == dl.pageGets + dl.imageGets

\* C20 as amended: download_series makes one page request per variant
\* number it tries, at most max_num of them (the image requests of
\* process_html come on top, only for a valid page); 0 <= misses <= 25 and
\* misses > 0 only after a valid page was saved; while the series runs or
\* after it ended by itself, misses is the number of invalid responses since
\* the last valid page once one was found (network errors leave it alone)
\* and 0 before; the series ends early in two ways only: by the break, at
\* the invalid response that makes that number 25, or by the exception of
\* process_html on a valid page, which leaves misses and found_any as they
\* were; otherwise it ends with the last number of the range.
C20_MissesCounter ==
  /\ [](pc = "download" =>
          /\ dl.pageGets = dl.num /\ dl.num <= dl.max_num
          /\ dl.imageGets > 0 => dl.found_any \/ dl.pc = "raised"
          /\ 0 <= dl.misses /\ dl.misses <= 25
          /\ dl.misses > 0 => dl.found_any
          /\ dl.pc # "raised" =>
                /\ dl.misses = IF dl.found_any THEN dl.sinceValid ELSE 0
                /\ dl.last = "valid" => dl.misses = 0 /\ dl.found_any
          /\ dl.pc = "stopped" <=> (dl.found_any /\ dl.sinceValid >= 25)
          /\ dl.pc = "stopped" => dl.sinceValid = 25 /\ dl.last = "invalid"
          /\ dl.pc = "raised" => dl.last = "valid"
          /\ dl.pc = "done" => dl.num = dl.max_num)
  /\ [][dl'.pc = "raised" =>
          dl'.misses = dl.misses /\ dl'.found_any = dl.found_any]_vars

\* A series cut short by the break, with more requests made than max_num.
C20_Witness ==
  /\ dl.pc = "stopped"
  /\ dl.misses = 25
  /\ dl.num = 29
  /\ dl.max_num = 30
  /\ dl.sinceValid = 25
  /\ Attempts = 31

\* C20 as stated: download_series makes at most max_num requests; it ends
\* before the end of its range exactly when 25 invalid responses have
\* accumulated since the last valid page, and otherwise with the last
\* number of the range; 0 <= misses <= 25, misses > 0 only after a valid
\* page, a valid page resets misses to 0 and a network error leaves it alone.
C20_AtMostMaxNumRequests ==
  pc = "download" =>
    /\ Attempts <= dl.max_num
    /\ 0 <= dl.misses /\ dl.misses <= 25
    /\ dl.misses > 0 => dl.found_any
    /\ dl.misses = IF dl.found_any THEN dl.sinceValid ELSE 0
    /\ dl.pc = "stopped" <=> (dl.found_any /\ dl.sinceValid >= 25)
    /\ dl.pc # "loop" => (dl.num < dl.max_num <=> dl.pc = "stopped")
    /\ dl.last = "valid" => dl.misses = 0 /\ dl.found_any
====
